---- MODULE Spec2Model ----
(***************************************************************************)
(* Model of the WhatsApp relay: the router (webhook gateway) of            *)
(* router/app/main.py and router/app/api/webhook.py, and the processing    *)
(* backend of server/app/main.py.                                          *)
(*                                                                         *)
(* Python values are modelled with their run-time type: a JSON value is a  *)
(* record tagged by t ("null", "bool", "num", "str", "arr", "obj"); a      *)
(* string is the sequence of its characters, an array a sequence, an       *)
(* object a function from its keys.  A Python operation that can raise is  *)
(* an operator returning Ok(value) or Exc(exception class).                *)
(***************************************************************************)
EXTENDS Integers, Sequences, FiniteSets, TLC

VARIABLES
    payload,      \* extraction harness: the JSON value handed to the extractors
    exMain,       \* extraction harness: result of app.main.extract_message_data
    exParser,     \* extraction harness: result of app.utils.parser.extract_message_data
    impl,         \* which application is mounted: "main" or "api"
    secret,       \* the configured WHATSAPP_WEBHOOK_VERIFY_TOKEN
    reqs,         \* receive calls: per call its position, payload and locals
    log,          \* per receive call, the sequence of its external events
    vreq,         \* verification: the request (mode, challenge, token) or NoReq
    vresp,        \* verification: the response or NoResp
    srvReq,       \* backend: the request being processed or NoReq
    srvResp,      \* backend: the response or NoResp
    srvCalls,     \* backend: number of /process requests answered so far
    srvDraws      \* backend: number of random.randint calls made so far

vars == <<payload, exMain, exParser, impl, secret, reqs, log, vreq, vresp,
          srvReq, srvResp, srvCalls, srvDraws>>

-----------------------------------------------------------------------------
(* JSON values as Python sees them after request.json().                   *)

JNull == [t |-> "null"]
JBool(b) == [t |-> "bool", v |-> b]
JNum(n) == [t |-> "num", v |-> n]
JStr(s) == [t |-> "str", v |-> s]
JArr(a) == [t |-> "arr", v |-> a]
JObj(f) == [t |-> "obj", v |-> f]

EmptyObj == [k \in {} |-> JNull]

Ok(x) == [ok |-> TRUE, v |-> x]
Exc(e) == [ok |-> FALSE, exc |-> e]

\* The characters of the string literals the extractors use as keys.
KeyChars(k) ==
    CASE k = "messages" -> <<"m", "e", "s", "s", "a", "g", "e", "s">>
      [] k = "text" -> <<"t", "e", "x", "t">>
      [] k = "entry" -> <<"e", "n", "t", "r", "y">>
      [] k = "changes" -> <<"c", "h", "a", "n", "g", "e", "s">>
      [] k = "value" -> <<"v", "a", "l", "u", "e">>
      [] k = "body" -> <<"b", "o", "d", "y">>
      [] k = "from" -> <<"f", "r", "o", "m">>

IsSubstr(n, h) ==
    \E i \in 0..(Len(h) - Len(n)) : SubSeq(h, i + 1, i + Len(n)) = n

\* x[k] for a string literal k.
GetItemKey(x, k) ==
    IF x.t = "obj"
    THEN IF k \in DOMAIN x.v THEN Ok(x.v[k]) ELSE Exc("KeyError")
    ELSE Exc("TypeError")

\* Mutant of GetItem0: the last element instead of the first.
GetItem0_Last(x) ==
    CASE x.t = "obj" -> Exc("KeyError")
      [] x.t = "arr" -> IF Len(x.v) = 0 THEN Exc("IndexError")
                                        ELSE Ok(x.v[Len(x.v)])
      [] x.t = "str" -> IF Len(x.v) = 0 THEN Exc("IndexError")
                                        ELSE Ok(JStr(<<x.v[Len(x.v)]>>))
      [] OTHER -> Exc("TypeError")

\* x[0].
GetItem0(x) ==
    CASE x.t = "obj" -> Exc("KeyError")
      [] x.t = "arr" -> IF Len(x.v) = 0 THEN Exc("IndexError") ELSE Ok(x.v[1])
      [] x.t = "str" -> IF Len(x.v) = 0 THEN Exc("IndexError")
                                        ELSE Ok(JStr(<<x.v[1]>>))
      [] OTHER -> Exc("TypeError")

\* k in x for a string literal k.
Contains(k, x) ==
    CASE x.t = "obj" -> Ok(k \in DOMAIN x.v)
      [] x.t = "arr" -> Ok(\E i \in 1..Len(x.v) :
                              x.v[i].t = "str" /\ x.v[i].v = KeyChars(k))
      [] x.t = "str" -> Ok(IsSubstr(KeyChars(k), x.v))
      [] OTHER -> Exc("TypeError")

-----------------------------------------------------------------------------
(* Extraction.                                                             *)

None == [kind |-> "none"]
Pair(text, sender) == [kind |-> "pair", text |-> text, from |-> sender]
Raised(e) == [kind |-> "raise", exc |-> e]

\* The statements of the try block, shared by both extractors: the value
\* returned, or the exception raised inside the block.
ExtractTry(body) ==
    LET entry == GetItemKey(body, "entry") IN
    IF ~entry.ok THEN Raised(entry.exc) ELSE
    LET entry0 == GetItem0(entry.v) IN
    IF ~entry0.ok THEN Raised(entry0.exc) ELSE
    LET changes == GetItemKey(entry0.v, "changes") IN
    IF ~changes.ok THEN Raised(changes.exc) ELSE
    LET change0 == GetItem0(changes.v) IN
    IF ~change0.ok THEN Raised(change0.exc) ELSE
    LET value == GetItemKey(change0.v, "value") IN
    IF ~value.ok THEN Raised(value.exc) ELSE
    LET hasMessages == Contains("messages", value.v) IN
    IF ~hasMessages.ok THEN Raised(hasMessages.exc) ELSE
    IF ~hasMessages.v THEN None ELSE
    LET messages == GetItemKey(value.v, "messages") IN
    IF ~messages.ok THEN Raised(messages.exc) ELSE
    LET msg == GetItem0(messages.v) IN
    IF ~msg.ok THEN Raised(msg.exc) ELSE
    LET hasText == Contains("text", msg.v) IN
    IF ~hasText.ok THEN Raised(hasText.exc) ELSE
    IF ~hasText.v THEN None ELSE
    LET text == GetItemKey(msg.v, "text") IN
    IF ~text.ok THEN Raised(text.exc) ELSE
    LET textBody == GetItemKey(text.v, "body") IN
    IF ~textBody.ok THEN Raised(textBody.exc) ELSE
    LET sender == GetItemKey(msg.v, "from") IN
    IF ~sender.ok THEN Raised(sender.exc) ELSE
    Pair(textBody.v, sender.v)

\* Mutant of MainCaught: the except clause names KeyError only.
MainCaught_KeyErrorOnly == {"KeyError"}

\* Mutant of MainCaught: TypeError is left out of the except clause.
MainCaught_NoTypeError == {"KeyError", "IndexError"}

\* The exception classes the except clause of app.main names.
MainCaught == {"KeyError", "IndexError", "TypeError"}

\* Every exception the try block can raise derives from Exception.
ExceptionClasses == {"KeyError", "IndexError", "TypeError"}

main_extract_message_data(body) ==
    LET r == ExtractTry(body) IN
    IF r.kind = "raise" /\ r.exc \in MainCaught THEN None ELSE r

parser_extract_message_data(body) ==
    LET r == ExtractTry(body) IN
    IF r.kind = "raise" /\ r.exc \in ExceptionClasses THEN None ELSE r

-----------------------------------------------------------------------------
(* The payloads the extraction harness draws from: every way the path      *)
(* entry[0].changes[0].value.messages[0].{text.body, from} can be missing, *)
(* empty or of the wrong type, with up to MaxExtra further elements after  *)
(* the first one of each array.                                            *)

MaxExtra == 1

Hi == <<"h", "i">>
Yo == <<"y", "o">>
Sender1 == <<"1", "2">>
Sender2 == <<"3", "4">>

Leaves ==
    { JNull, JBool(TRUE), JNum(5), JStr(<<>>), JStr(Hi),
      JStr(KeyChars("text")), JStr(KeyChars("messages")),
      JStr(<<"a">> \o KeyChars("text")),
      JArr(<<>>), JArr(<<JStr(KeyChars("text"))>>),
      JArr(<<JStr(KeyChars("messages"))>>), JObj(EmptyObj) }

BodyVals == { JStr(Hi), JStr(<<>>), JNum(5), JNull }
FromVals == { JStr(Sender1), JNum(7), JNull }

TextMsg(b, f) == JObj([text |-> JObj([body |-> b]), from |-> f])

TextVals == Leaves \cup { JObj([body |-> b]) : b \in BodyVals }

MsgVals ==
    Leaves
    \cup { JObj([text |-> t, from |-> f]) : t \in TextVals, f \in FromVals }
    \cup { JObj([text |-> t]) : t \in TextVals }
    \cup { JObj([from |-> f, image |-> JObj([id |-> JStr(Hi)])]) : f \in FromVals }

\* Arrays whose first element is drawn from S, followed by 0..MaxExtra
\* elements drawn from X.
ArraysOf(S, X) ==
    { JArr(<<first>> \o rest) :
        first \in S, rest \in UNION { [1..n -> X] : n \in 0..MaxExtra } }

ExtraMsgs == { TextMsg(JStr(Yo), JStr(Sender2)), JNull }

MessagesVals == Leaves \cup ArraysOf(MsgVals, ExtraMsgs)

ValueVals ==
    Leaves
    \cup { JObj([messages |-> m]) : m \in MessagesVals }
    \cup { JObj([statuses |-> JArr(<<JObj([status |-> JStr(Hi)])>>)]) }

ValueOf(m) == JObj([value |-> JObj([messages |-> JArr(<<m>>)])])

ExtraChanges == { ValueOf(TextMsg(JStr(Yo), JStr(Sender2))), JNull }

ChangesVals ==
    Leaves
    \cup ArraysOf(Leaves \cup { JObj([value |-> v]) : v \in ValueVals },
                  ExtraChanges)

ExtraEntries ==
    { JObj([changes |-> JArr(<<ValueOf(TextMsg(JStr(Yo), JStr(Sender2)))>>)]),
      JNull }

EntryVals ==
    Leaves
    \cup ArraysOf(Leaves \cup { JObj([changes |-> c]) : c \in ChangesVals },
                  ExtraEntries)

Payloads == Leaves \cup { JObj([entry |-> e]) : e \in EntryVals }

-----------------------------------------------------------------------------
(* Extraction harness: each extractor applied to a payload.                *)

NotRun == [kind |-> "notrun"]

RunMainExtract ==
    /\ exMain = NotRun
    /\ exMain' = main_extract_message_data(payload)
    /\ UNCHANGED <<payload, exParser, impl, secret, reqs, log, vreq, vresp,
                   srvReq, srvResp, srvCalls, srvDraws>>

RunParserExtract ==
    /\ exParser = NotRun
    /\ exParser' = parser_extract_message_data(payload)
    /\ UNCHANGED <<payload, exMain, impl, secret, reqs, log, vreq, vresp,
                   srvReq, srvResp, srvCalls, srvDraws>>

-----------------------------------------------------------------------------
(* The Processing Backend as the router sees it over HTTP.                 *)

\* A response body that is not JSON.
InvalidJson == [t |-> "invalid"]

Reply1 == <<"r", "1">>
Reply2 == <<"r", "2">>

ProcessBodies ==
    { JObj([original |-> JStr(Hi), reply |-> JStr(Reply1)]),
      JObj([original |-> JStr(Hi), reply |-> JStr(Reply2)]),
      JObj([original |-> JStr(Hi)]),
      JArr(<<>>),
      InvalidJson }

\* What the POST to /process can end in: no connection, no answer within the
\* timeout, or a response with a status and a body.
BackendOutcomes ==
    { [kind |-> "connect_error"], [kind |-> "timeout"] }
    \cup { [kind |-> "response", status |-> 200, body |-> b] : b \in ProcessBodies }
    \cup { [kind |-> "response", status |-> st, body |-> JObj([detail |-> JStr(Hi)])] :
             st \in {422, 500} }

\* An exception with the text str() gives for it.
Err(cls, msg) == [ok |-> FALSE, exc |-> cls, msg |-> msg]

\* The subclasses of httpx.HTTPError among the exceptions of the call.
HttpxErrors == {"ConnectError", "ReadTimeout", "HTTPStatusError"}

\* client.post(...), resp.raise_for_status(), resp.json()["reply"]: the
\* statements both call_server_backend and call_backend run.
PostAndRead(o) ==
    CASE o.kind = "connect_error" -> Err("ConnectError", "connection failed")
      [] o.kind = "timeout" -> Err("ReadTimeout", "timed out")
      [] OTHER ->
          IF ~(o.status \in 200..299)
          THEN Err("HTTPStatusError", "error response")
          ELSE IF o.body = InvalidJson
          THEN Err("JSONDecodeError", "Expecting value")
          ELSE LET reply == GetItemKey(o.body, "reply") IN
               IF reply.ok THEN reply
               ELSE IF reply.exc = "KeyError" THEN Err("KeyError", "'reply'")
               ELSE Err("TypeError", "indices must be integers")

\* app.main: the except clause logs an httpx.HTTPError and re-raises it;
\* any other exception propagates untouched.
call_server_backend(o) ==
    LET r == PostAndRead(o) IN
    IF ~r.ok /\ r.exc \in HttpxErrors THEN r ELSE r

\* app.services.backend_service: no handler at all.
call_backend(o) == PostAndRead(o)

\* What wa.send_message can end in.
Sent == [ok |-> TRUE, exc |-> "", msg |-> ""]
SendOutcomes == { Sent, Err("WhatsAppError", "send failed") }

-----------------------------------------------------------------------------
(* The receive handlers.                                                   *)

NoMessage == [none |-> TRUE, v |-> ""]
Message(m) == [none |-> FALSE, v |-> m]

\* The value the handler returns, before FastAPI serializes it.
Returned(status, message) == [status |-> status, message |-> message]

\* app.main.WebhookResponse declares status only; app.models.schemas
\* .WebhookResponse declares status and message.
MainResponseFields == {"status"}
SchemasResponseFields == {"status", "message"}

\* response_model serialization: the declared fields of the model, and
\* nothing else of what the handler returned.
Serialize(fields, ret) == [f \in fields |-> ret[f]]

ResponseFields(i) ==
    IF i = "main" THEN MainResponseFields ELSE SchemasResponseFields

Http200(i, ret) == [http |-> 200, body |-> Serialize(ResponseFields(i), ret)]

\* An exception that leaves the handler: the framework answers 500.
Http500 == [http |-> 500, body |-> [detail |-> "Internal Server Error"]]

\* Events of one receive call, in the order they happen.
EvBackendCall(text) == [ev |-> "backend_call", text |-> text]
EvBackendReturn(ok) == [ev |-> "backend_return", ok |-> ok]
EvSend(to, text) == [ev |-> "send", to |-> to, text |-> text]
EvRespond(resp) == [ev |-> "respond", resp |-> resp]

Extract(i, body) ==
    IF i = "main" THEN main_extract_message_data(body)
                  ELSE parser_extract_message_data(body)

\* "message_data is None" in app.main, "not message_data" in app.api.webhook:
\* None is falsy and a 2-tuple is truthy.
IsIgnored(i, md) ==
    IF i = "main" THEN md = None ELSE md.kind # "pair"

\* Mutant of HandlerHead: a payload without a message is forwarded as an
\* empty text instead of being ignored.
HandlerHead_ForwardAbsent(i, body) ==
    LET md == Extract(i, body) IN
    IF md.kind = "raise"
    THEN [pc |-> "done", md |-> md, events |-> <<EvRespond(Http500)>>]
    ELSE IF IsIgnored(i, md)
    THEN [pc |-> "awaiting_backend", md |-> Pair(JStr(<<>>), JStr(<<>>)),
          events |-> <<EvBackendCall(JStr(<<>>))>>]
    ELSE [pc |-> "awaiting_backend", md |-> md,
          events |-> <<EvBackendCall(md.text)>>]

\* The handler from request.json() to the await of the backend call:
\* either it has answered, or it is waiting for the backend.
HandlerHead(i, body) ==
    LET md == Extract(i, body) IN
    IF md.kind = "raise"
    THEN [pc |-> "done", md |-> md, events |-> <<EvRespond(Http500)>>]
    ELSE IF IsIgnored(i, md)
    THEN [pc |-> "done", md |-> md,
          events |-> <<EvRespond(Http200(i, Returned("ignored", NoMessage)))>>]
    ELSE [pc |-> "awaiting_backend", md |-> md,
          events |-> <<EvBackendCall(md.text)>>]

CallBackend(i, o) ==
    IF i = "main" THEN call_server_backend(o) ELSE call_backend(o)

\* Mutants of HandlerTail: a failed backend call is tried a second time;
\* the incoming text is sent instead of the reply; send_message is called
\* outside the try block.
HandlerTail_Retry(i, md, o, s) ==
    LET r == CallBackend(i, o) IN
    IF ~r.ok
    THEN <<EvBackendReturn(FALSE), EvBackendCall(md.text), EvBackendReturn(FALSE),
           EvRespond(Http200(i, Returned("error", Message(r.msg))))>>
    ELSE IF ~s.ok
    THEN <<EvBackendReturn(TRUE), EvSend(md.from, r.v),
           EvRespond(Http200(i, Returned("error", Message(s.msg))))>>
    ELSE <<EvBackendReturn(TRUE), EvSend(md.from, r.v),
           EvRespond(Http200(i, Returned("ok", NoMessage)))>>

HandlerTail_EchoText(i, md, o, s) ==
    LET r == CallBackend(i, o) IN
    IF ~r.ok
    THEN <<EvBackendReturn(FALSE),
           EvRespond(Http200(i, Returned("error", Message(r.msg))))>>
    ELSE IF ~s.ok
    THEN <<EvBackendReturn(TRUE), EvSend(md.from, md.text),
           EvRespond(Http200(i, Returned("error", Message(s.msg))))>>
    ELSE <<EvBackendReturn(TRUE), EvSend(md.from, md.text),
           EvRespond(Http200(i, Returned("ok", NoMessage)))>>

HandlerTail_SendUncaught(i, md, o, s) ==
    LET r == CallBackend(i, o) IN
    IF ~r.ok
    THEN <<EvBackendReturn(FALSE),
           EvRespond(Http200(i, Returned("error", Message(r.msg))))>>
    ELSE IF ~s.ok
    THEN <<EvBackendReturn(TRUE), EvSend(md.from, r.v), EvRespond(Http500)>>
    ELSE <<EvBackendReturn(TRUE), EvSend(md.from, r.v),
           EvRespond(Http200(i, Returned("ok", NoMessage)))>>

\* The handler from the backend's answer to its response: the try block
\* and its "except Exception".  s is what send_message ends in if called.
HandlerTail(i, md, o, s) ==
    LET r == CallBackend(i, o) IN
    IF ~r.ok
    THEN <<EvBackendReturn(FALSE),
           EvRespond(Http200(i, Returned("error", Message(r.msg))))>>
    ELSE IF ~s.ok
    THEN <<EvBackendReturn(TRUE), EvSend(md.from, r.v),
           EvRespond(Http200(i, Returned("error", Message(s.msg))))>>
    ELSE <<EvBackendReturn(TRUE), EvSend(md.from, r.v),
           EvRespond(Http200(i, Returned("ok", NoMessage)))>>

-----------------------------------------------------------------------------
(* Receive calls.                                                          *)

MaxReqs == 2

Reqs == 1..MaxReqs

Impls == {"main", "api"}

NoPayload == [t |-> "unset"]

Wrap(value) ==
    JObj([entry |-> JArr(<<JObj([changes |-> JArr(<<JObj([value |-> value])>>)])>>)])

StatusUpdate ==
    Wrap(JObj([statuses |-> JArr(<<JObj([status |-> JStr(Hi)])>>)]))

ImageMessage ==
    Wrap(JObj([messages |->
        JArr(<<JObj([from |-> JStr(Sender1), image |-> JObj([id |-> JStr(Hi)])]),
               TextMsg(JStr(Yo), JStr(Sender2))>>)]))

TextMessage(b, f) == Wrap(JObj([messages |-> JArr(<<TextMsg(b, f)>>)]))

\* Payloads on which the try block raises IndexError, or TypeError after
\* a membership test on a string or on a number.
EmptyEntry == JObj([entry |-> JArr(<<>>)])
StringValue == Wrap(JStr(KeyChars("messages")))
NumberValue == Wrap(JNum(5))

ReceivePayloads ==
    { JObj(EmptyObj), JArr(<<>>), StatusUpdate, ImageMessage,
      EmptyEntry, StringValue, NumberValue,
      TextMessage(JStr(Hi), JStr(Sender1)),
      TextMessage(JStr(Yo), JStr(Sender2)),
      TextMessage(JNum(5), JStr(Sender1)) }

\* outcome and send record what the environment did to the call: how the
\* backend call ended, and how send_message ended if it was invoked.
NoOutcome == [kind |-> "pending"]
NotCalled == [ok |-> FALSE, exc |-> "not called", msg |-> ""]

IdleReq ==
    [pc |-> "idle", payload |-> NoPayload, md |-> NotRun,
     outcome |-> NoOutcome, send |-> NotCalled]

\* Mutant of Receive: a payload another call has already delivered is
\* acknowledged as ignored without being processed again.
Receive_Dedup(r, p) ==
    /\ reqs[r].pc = "idle"
    /\ LET h == HandlerHead(impl, p)
           seen == \E q \in Reqs \ {r} : reqs[q].payload = p
       IN IF seen
          THEN /\ reqs' = [reqs EXCEPT ![r].pc = "done", ![r].payload = p,
                                       ![r].md = h.md]
               /\ log' = [log EXCEPT ![r] =
                            @ \o <<EvRespond(Http200(impl, Returned("ignored", NoMessage)))>>]
          ELSE /\ reqs' = [reqs EXCEPT ![r].pc = h.pc, ![r].payload = p,
                                       ![r].md = h.md]
               /\ log' = [log EXCEPT ![r] = @ \o h.events]
    /\ UNCHANGED <<payload, exMain, exParser, impl, secret, vreq, vresp,
                   srvReq, srvResp, srvCalls, srvDraws>>

\* POST /webhook arrives: the handler runs to its first await or to its
\* response.
Receive(r, p) ==
    /\ reqs[r].pc = "idle"
    /\ LET h == HandlerHead(impl, p) IN
         /\ reqs' = [reqs EXCEPT ![r].pc = h.pc, ![r].payload = p, ![r].md = h.md]
         /\ log' = [log EXCEPT ![r] = @ \o h.events]
    /\ UNCHANGED <<payload, exMain, exParser, impl, secret, vreq, vresp,
                   srvReq, srvResp, srvCalls, srvDraws>>

\* The awaited backend call completes with outcome o: the handler resumes
\* and runs to its response.
BackendReturns(r, o, s) ==
    /\ reqs[r].pc = "awaiting_backend"
    /\ LET events == HandlerTail(impl, reqs[r].md, o, s)
           sent == \E i \in 1..Len(events) : events[i].ev = "send"
       IN /\ reqs' = [reqs EXCEPT ![r].pc = "done", ![r].outcome = o,
                                  ![r].send = IF sent THEN s ELSE NotCalled]
          /\ log' = [log EXCEPT ![r] = @ \o events]
    /\ UNCHANGED <<payload, exMain, exParser, impl, secret, vreq, vresp,
                   srvReq, srvResp, srvCalls, srvDraws>>

-----------------------------------------------------------------------------
(* Verification handshake.                                                 *)

MaxChallengeLen == 3

ChallengeChars == {"0", "7", "-", "+", " ", "_", "a"}
Challenges == UNION { [1..n -> ChallengeChars] : n \in 0..MaxChallengeLen }
Modes == {"subscribe", "Subscribe", "unsubscribe"}
Tokens == {"test_token", "TEST_TOKEN", "wrong_token", ""}
Secrets == {"test_token", ""}

Digits == {"0", "1", "2", "3", "4", "5", "6", "7", "8", "9"}

DigitVal(c) ==
    CASE c = "0" -> 0 [] c = "1" -> 1 [] c = "2" -> 2 [] c = "3" -> 3
      [] c = "4" -> 4 [] c = "5" -> 5 [] c = "6" -> 6 [] c = "7" -> 7
      [] c = "8" -> 8 [] c = "9" -> 9

RECURSIVE Strip(_)
Strip(s) ==
    IF Len(s) > 0 /\ s[1] = " " THEN Strip(Tail(s))
    ELSE IF Len(s) > 0 /\ s[Len(s)] = " " THEN Strip(SubSeq(s, 1, Len(s) - 1))
    ELSE s

\* Digits, with single underscores allowed between two digits.
IsDigitString(s) ==
    /\ Len(s) > 0
    /\ s[1] \in Digits
    /\ s[Len(s)] \in Digits
    /\ \A i \in 1..Len(s) : s[i] \in Digits \cup {"_"}
    /\ \A i \in 1..(Len(s) - 1) : ~(s[i] = "_" /\ s[i + 1] = "_")

RECURSIVE DigitsValue(_)
DigitsValue(s) ==
    IF Len(s) = 0 THEN 0
    ELSE IF s[Len(s)] = "_" THEN DigitsValue(SubSeq(s, 1, Len(s) - 1))
    ELSE 10 * DigitsValue(SubSeq(s, 1, Len(s) - 1)) + DigitVal(s[Len(s)])

\* int(s) for a str s: surrounding whitespace is dropped, one sign is
\* allowed, anything else but a digit string raises ValueError.
PyInt(s) ==
    LET t == Strip(s)
        signed == Len(t) > 0 /\ t[1] \in {"+", "-"}
        d == IF signed THEN Tail(t) ELSE t
    IN IF ~IsDigitString(d) THEN Exc("ValueError")
       ELSE IF signed /\ t[1] = "-" THEN Ok(0 - DigitsValue(d))
       ELSE Ok(DigitsValue(d))

Forbidden == [http |-> 403, detail |-> "Verification failed"]
VerifyError == [http |-> 500, detail |-> "Internal Server Error"]
Verified(n) == [http |-> 200, body |-> n]

\* Lower-casing, on the modes and tokens of the model.
Lower(x) ==
    CASE x = "TEST_TOKEN" -> "test_token"
      [] x = "Subscribe" -> "subscribe"
      [] OTHER -> x

\* Mutant of verify_webhook: the token is compared ignoring case.
verify_webhook_IgnoreCase(hub_mode, hub_challenge, hub_verify_token, configured) ==
    IF hub_mode = "subscribe" /\ Lower(hub_verify_token) = Lower(configured)
    THEN LET n == PyInt(hub_challenge) IN
         IF n.ok THEN Verified(n.v) ELSE VerifyError
    ELSE Forbidden

\* Mutant of verify: the challenge is parsed before the mode and token are
\* checked.
verify_ParseFirst(hub_mode, hub_challenge, hub_token, configured) ==
    LET n == PyInt(hub_challenge) IN
    IF ~n.ok THEN VerifyError
    ELSE IF hub_mode = "subscribe" /\ hub_token = configured
    THEN Verified(n.v)
    ELSE Forbidden

\* app.main.verify_webhook.
verify_webhook(hub_mode, hub_challenge, hub_verify_token, configured) ==
    IF hub_mode = "subscribe" /\ hub_verify_token = configured
    THEN LET n == PyInt(hub_challenge) IN
         IF n.ok THEN Verified(n.v) ELSE VerifyError
    ELSE Forbidden

\* app.api.webhook.verify.
verify(hub_mode, hub_challenge, hub_token, configured) ==
    IF hub_mode = "subscribe" /\ hub_token = configured
    THEN LET n == PyInt(hub_challenge) IN
         IF n.ok THEN Verified(n.v) ELSE VerifyError
    ELSE Forbidden

NoReq == [kind |-> "noreq"]
NoResp == [kind |-> "noresp"]

\* GET /webhook is answered.
Verify ==
    /\ vreq # NoReq
    /\ vresp = NoResp
    /\ vresp' = IF impl = "main"
                THEN verify_webhook(vreq.mode, vreq.challenge, vreq.token, secret)
                ELSE verify(vreq.mode, vreq.challenge, vreq.token, secret)
    /\ UNCHANGED <<payload, exMain, exParser, impl, secret, reqs, log, vreq,
                   srvReq, srvResp, srvCalls, srvDraws>>

-----------------------------------------------------------------------------
(* The Processing Backend.                                                 *)

MaxTextLen == 1
MaxSrvCalls == 2

RandLo == 1000
RandHi == 9999

\* A character is a code point; "U+1F60A" is one outside the ASCII range.
TextChars == {"a", "'", "U+1F60A"}
Texts == UNION { [1..n -> TextChars] : n \in 0..MaxTextLen }

ProcessRequests ==
    { InvalidJson, JObj(EmptyObj), JArr(<<>>), JObj([text |-> JNum(5)]) }
    \cup { JObj([text |-> JStr(t)]) : t \in Texts }

DigitChar(d) ==
    CASE d = 0 -> "0" [] d = 1 -> "1" [] d = 2 -> "2" [] d = 3 -> "3"
      [] d = 4 -> "4" [] d = 5 -> "5" [] d = 6 -> "6" [] d = 7 -> "7"
      [] d = 8 -> "8" [] d = 9 -> "9"

\* str(n) of a non-negative int, as the f-string formats it.
RECURSIVE IntStr(_)
IntStr(n) ==
    IF n < 10 THEN <<DigitChar(n)>>
    ELSE IntStr(n \div 10) \o <<DigitChar(n % 10)>>

\* "I received your message: '"
ReplyPrefix ==
    <<"I", " ", "r", "e", "c", "e", "i", "v", "e", "d", " ", "y", "o", "u",
      "r", " ", "m", "e", "s", "s", "a", "g", "e", ":", " ", "'">>

\* "' and here is a random number: "
ReplyMiddle ==
    <<"'", " ", "a", "n", "d", " ", "h", "e", "r", "e", " ", "i", "s", " ",
      "a", " ", "r", "a", "n", "d", "o", "m", " ", "n", "u", "m", "b", "e",
      "r", ":", " ">>

\* Mutant of process_message: quotes are removed from the text before it is
\* echoed.
process_message_Sanitized(text, rnd) ==
    LET clean == SelectSeq(text, LAMBDA c : c # "'") IN
    [original |-> clean,
     reply |-> ReplyPrefix \o clean \o ReplyMiddle \o IntStr(rnd)]

\* The body of process_message, given the number random.randint returned.
process_message(text, rnd) ==
    [original |-> text,
     reply |-> ReplyPrefix \o text \o ReplyMiddle \o IntStr(rnd)]

\* The request body against MessageIn: an object with a str "text".
ValidMessageIn(body) ==
    /\ body.t = "obj"
    /\ "text" \in DOMAIN body.v
    /\ body.v["text"].t = "str"

Unprocessable == [http |-> 422, body |-> [detail |-> "validation error"]]
Processed(out) == [http |-> 200, body |-> out]

\* POST /process arrives.
SrvRequest(b) ==
    /\ srvReq = NoReq \/ srvResp # NoResp
    /\ srvCalls < MaxSrvCalls
    /\ srvReq' = b
    /\ srvResp' = NoResp
    /\ UNCHANGED <<payload, exMain, exParser, impl, secret, reqs, log, vreq,
                   vresp, srvCalls, srvDraws>>

\* Mutant of SrvReject: the random number is drawn before the body is
\* validated.
SrvReject_DrawsFirst ==
    /\ srvReq # NoReq
    /\ srvResp = NoResp
    /\ ~ValidMessageIn(srvReq)
    /\ srvResp' = Unprocessable
    /\ srvCalls' = srvCalls + 1
    /\ srvDraws' = srvDraws + 1
    /\ UNCHANGED <<payload, exMain, exParser, impl, secret, reqs, log, vreq,
                   vresp, srvReq>>

\* The request fails validation: process_message is not entered.
SrvReject ==
    /\ srvReq # NoReq
    /\ srvResp = NoResp
    /\ ~ValidMessageIn(srvReq)
    /\ srvResp' = Unprocessable
    /\ srvCalls' = srvCalls + 1
    /\ UNCHANGED <<payload, exMain, exParser, impl, secret, reqs, log, vreq,
                   vresp, srvReq, srvDraws>>

\* process_message runs on the validated payload.
SrvProcess ==
    /\ srvReq # NoReq
    /\ srvResp = NoResp
    /\ ValidMessageIn(srvReq)
    /\ \E rnd \in RandLo..RandHi :
         srvResp' = Processed(process_message(srvReq.v["text"].v, rnd))
    /\ srvCalls' = srvCalls + 1
    /\ srvDraws' = srvDraws + 1
    /\ UNCHANGED <<payload, exMain, exParser, impl, secret, reqs, log, vreq,
                   vresp, srvReq>>

-----------------------------------------------------------------------------
(* Specifications.                                                         *)

\* The router serving receive calls.
Init ==
    /\ impl \in Impls
    /\ secret = "test_token"
    /\ payload = NoPayload
    /\ exMain = NotRun
    /\ exParser = NotRun
    /\ reqs = [r \in Reqs |-> IdleReq]
    /\ log = [r \in Reqs |-> <<>>]
    /\ vreq = NoReq
    /\ vresp = NoResp
    /\ srvReq = NoReq
    /\ srvResp = NoResp
    /\ srvCalls = 0
    /\ srvDraws = 0

Next ==
    \/ \E r \in Reqs, p \in ReceivePayloads : Receive(r, p)
    \/ \E r \in Reqs, o \in BackendOutcomes, s \in SendOutcomes :
         BackendReturns(r, o, s)

Spec == Init /\ [][Next]_vars

\* The extractors applied to every payload.
InitExtract ==
    /\ impl = "main"
    /\ secret = "test_token"
    /\ payload \in Payloads
    /\ exMain = NotRun
    /\ exParser = NotRun
    /\ reqs = [r \in Reqs |-> IdleReq]
    /\ log = [r \in Reqs |-> <<>>]
    /\ vreq = NoReq
    /\ vresp = NoResp
    /\ srvReq = NoReq
    /\ srvResp = NoResp
    /\ srvCalls = 0
    /\ srvDraws = 0

NextExtract == RunMainExtract \/ RunParserExtract

SpecExtract == InitExtract /\ [][NextExtract]_vars

\* The router answering one verification request.
InitVerify ==
    /\ impl \in Impls
    /\ secret \in Secrets
    /\ payload = NoPayload
    /\ exMain = NotRun
    /\ exParser = NotRun
    /\ reqs = [r \in Reqs |-> IdleReq]
    /\ log = [r \in Reqs |-> <<>>]
    /\ vreq \in { [kind |-> "verify", mode |-> m, challenge |-> c, token |-> t] :
                    m \in Modes, c \in Challenges, t \in Tokens }
    /\ vresp = NoResp
    /\ srvReq = NoReq
    /\ srvResp = NoResp
    /\ srvCalls = 0
    /\ srvDraws = 0

NextVerify == Verify

SpecVerify == InitVerify /\ [][NextVerify]_vars

\* The backend serving /process requests one after the other.
InitServer ==
    /\ impl = "main"
    /\ secret = "test_token"
    /\ payload = NoPayload
    /\ exMain = NotRun
    /\ exParser = NotRun
    /\ reqs = [r \in Reqs |-> IdleReq]
    /\ log = [r \in Reqs |-> <<>>]
    /\ vreq = NoReq
    /\ vresp = NoResp
    /\ srvReq = NoReq
    /\ srvResp = NoResp
    /\ srvCalls = 0
    /\ srvDraws = 0

NextServer ==
    \/ \E b \in ProcessRequests : SrvRequest(b)
    \/ SrvReject
    \/ SrvProcess

SpecServer == InitServer /\ [][NextServer]_vars

-----------------------------------------------------------------------------
(* Properties of the receive operation (specification Spec).               *)

EventsOf(r, kind) == SelectSeq(log[r], LAMBDA e : e.ev = kind)
EventKinds(r) == [i \in 1..Len(log[r]) |-> log[r][i].ev]
ResponseOf(r) == log[r][Len(log[r])].resp
Extracted(r) == Extract(impl, reqs[r].payload)

HasReply(b) == b.t = "obj" /\ "reply" \in DOMAIN b.v

\* The backend call failed: no connection, timeout, non-2xx, or a response
\* without a "reply" field.
BackendFailed(o) ==
    \/ o.kind \in {"connect_error", "timeout"}
    \/ /\ o.kind = "response"
       /\ ~(o.status \in 200..299) \/ ~HasReply(o.body)

BackendSucceeded(o) ==
    /\ o.kind = "response"
    /\ o.status \in 200..299
    /\ HasReply(o.body)

SendFailed(r) == Len(EventsOf(r, "send")) > 0 /\ ~reqs[r].send.ok

\* C1: when a message was extracted and the backend call fails, the handler
\* answers HTTP 200 with status "error", send is never invoked and the
\* backend was called exactly once (no retry).
C1_BackendFailure ==
    \A r \in Reqs :
        ( /\ reqs[r].pc = "done"
          /\ Extracted(r).kind = "pair"
          /\ BackendFailed(reqs[r].outcome) )
        => /\ ResponseOf(r).http = 200
           /\ ResponseOf(r).body["status"] = "error"
           /\ Len(EventsOf(r, "send")) = 0
           /\ Len(EventsOf(r, "backend_call")) = 1

C1_Witness ==
    \E r \in Reqs :
        /\ reqs[r].pc = "done"
        /\ reqs[r].payload = TextMessage(JStr(Hi), JStr(Sender1))
        /\ reqs[r].outcome = [kind |-> "timeout"]
        /\ ResponseOf(r).body["status"] = "error"

\* C2: when a message was extracted and the backend call succeeds with reply
\* r, the backend is called exactly once with the extracted text, send is
\* invoked exactly once with to = sender and text = r, after the backend's
\* answer and before the response, and the response is 200 "ok" unless the
\* send failed; send is never invoked twice, nor without a successful
\* backend response.
C2_SuccessSendsOnce ==
    \A r \in Reqs :
        /\ Len(EventsOf(r, "send")) <= 1
        /\ Len(EventsOf(r, "send")) > 0 => BackendSucceeded(reqs[r].outcome)
        /\ ( /\ reqs[r].pc = "done"
             /\ Extracted(r).kind = "pair"
             /\ BackendSucceeded(reqs[r].outcome) )
           => /\ EventKinds(r) = <<"backend_call", "backend_return", "send", "respond">>
              /\ log[r][1].text = Extracted(r).text
              /\ log[r][3].to = Extracted(r).from
              /\ log[r][3].text = reqs[r].outcome.body.v["reply"]
              /\ reqs[r].send.ok
                 => /\ ResponseOf(r).http = 200
                    /\ ResponseOf(r).body["status"] = "ok"

C2_Witness ==
    \E r \in Reqs :
        /\ reqs[r].pc = "done"
        /\ reqs[r].payload = TextMessage(JStr(Yo), JStr(Sender2))
        /\ BackendSucceeded(reqs[r].outcome)
        /\ EventsOf(r, "send") = <<EvSend(JStr(Sender2), JStr(Reply2))>>
        /\ ResponseOf(r).body["status"] = "ok"

\* C3: a payload on which extraction yields absence ({}, a statuses-only
\* value, a non-text first message) is answered HTTP 200 with status
\* "ignored", and neither the backend nor send is ever invoked for it.
C3_AbsentIgnored ==
    \A r \in Reqs :
        /\ reqs[r].payload \in {JObj(EmptyObj), StatusUpdate, ImageMessage}
           => Extracted(r) = None
        /\ (reqs[r].pc # "idle" /\ Extracted(r) = None)
           => /\ reqs[r].pc = "done"
              /\ EventKinds(r) = <<"respond">>
              /\ ResponseOf(r).http = 200
              /\ ResponseOf(r).body["status"] = "ignored"

C3_Witness ==
    \E r \in Reqs :
        /\ reqs[r].pc = "done"
        /\ reqs[r].payload = StatusUpdate
        /\ ResponseOf(r).body["status"] = "ignored"

\* C4: every receive call of a JSON body ends with HTTP 200 and a status
\* among "ok", "ignored", "error"; the status is "error" exactly when a
\* message was extracted and the backend call or the send failed.
C4_AlwaysAcknowledged ==
    \A r \in Reqs :
        reqs[r].pc = "done"
        => /\ ResponseOf(r).http = 200
           /\ ResponseOf(r).body["status"] \in {"ok", "ignored", "error"}
           /\ ResponseOf(r).body["status"] = "error"
              <=> /\ Extracted(r).kind = "pair"
                  /\ BackendFailed(reqs[r].outcome) \/ SendFailed(r)

C4_Witness ==
    \E r \in Reqs :
        /\ reqs[r].pc = "done"
        /\ BackendSucceeded(reqs[r].outcome)
        /\ SendFailed(r)
        /\ ResponseOf(r).http = 200
        /\ ResponseOf(r).body["status"] = "error"

\* C8: on any downstream failure the body returned is {status: "error",
\* message: <failure description>}: the message field is present and is
\* the text of the failure that occurred.
C8_ErrorCarriesMessage ==
    \A r \in Reqs :
        ( /\ reqs[r].pc = "done"
          /\ Extracted(r).kind = "pair"
          /\ BackendFailed(reqs[r].outcome) \/ SendFailed(r) )
        => /\ ResponseOf(r).body["status"] = "error"
           /\ "message" \in DOMAIN ResponseOf(r).body
           /\ ~ResponseOf(r).body["message"].none
           /\ ResponseOf(r).body["message"].v =
                IF BackendFailed(reqs[r].outcome)
                THEN PostAndRead(reqs[r].outcome).msg
                ELSE reqs[r].send.msg

-----------------------------------------------------------------------------
(* Properties of the verification handshake (specification SpecVerify).    *)

ModeTokenOk == vreq.mode = "subscribe" /\ vreq.token = secret

ChallengeIsInt == PyInt(vreq.challenge).ok

HandshakeSucceeds ==
    /\ vresp.http = 200
    /\ ChallengeIsInt
    /\ vresp.body = PyInt(vreq.challenge).v

\* C5 as stated: the handshake succeeds if and only if mode == "subscribe"
\* and the token equals the configured secret; every other request gets 403.
C5_Original ==
    vresp # NoResp
    => /\ HandshakeSucceeds <=> ModeTokenOk
       /\ ~ModeTokenOk => vresp.http = 403

\* C5, amended: the handshake succeeds if and only if mode == "subscribe",
\* the token equals the configured secret by exact string equality, and the
\* challenge is a valid integer string; every request that fails the mode or
\* token test gets 403.
C5_Amended ==
    vresp # NoResp
    => /\ HandshakeSucceeds <=> (ModeTokenOk /\ ChallengeIsInt)
       /\ ~ModeTokenOk => vresp.http = 403

C5_Witness ==
    /\ vreq # NoReq
    /\ vreq.mode = "subscribe"
    /\ vreq.token = "test_token"
    /\ secret = "test_token"
    /\ vreq.challenge = <<" ", "7", "0">>
    /\ vresp = Verified(70)

\* C9: with a matching mode and token and a challenge that is no integer
\* string the request ends in an unhandled error, neither 200 nor 403; when
\* the mode or token test fails the answer is 403 whatever the challenge.
C9_NonIntegerChallenge ==
    vresp # NoResp
    => /\ (ModeTokenOk /\ ~ChallengeIsInt)
          => (vresp.http \notin {200, 403} /\ vresp = VerifyError)
       /\ ~ModeTokenOk => vresp = Forbidden

C9_Witness ==
    /\ vreq # NoReq
    /\ ModeTokenOk
    /\ vreq.challenge = <<"7", "a">>
    /\ vresp = VerifyError

-----------------------------------------------------------------------------
(* Properties of extraction (specification SpecExtract).                   *)

HasKey(x, k) == x.t = "obj" /\ k \in DOMAIN x.v
NonEmptyArr(x) == x.t = "arr" /\ Len(x.v) > 0

\* entry[0].changes[0].value.messages[0] exists.
FirstMessageExists(p) ==
    /\ HasKey(p, "entry")
    /\ NonEmptyArr(p.v["entry"])
    /\ HasKey(p.v["entry"].v[1], "changes")
    /\ NonEmptyArr(p.v["entry"].v[1].v["changes"])
    /\ HasKey(p.v["entry"].v[1].v["changes"].v[1], "value")
    /\ HasKey(p.v["entry"].v[1].v["changes"].v[1].v["value"], "messages")
    /\ NonEmptyArr(p.v["entry"].v[1].v["changes"].v[1].v["value"].v["messages"])

MessagesOf(p) == p.v["entry"].v[1].v["changes"].v[1].v["value"].v["messages"].v
FirstMessage(p) == MessagesOf(p)[1]

\* ... and has both text.body and from.
HasTextMessage(p) ==
    /\ FirstMessageExists(p)
    /\ HasKey(FirstMessage(p), "text")
    /\ HasKey(FirstMessage(p).v["text"], "body")
    /\ HasKey(FirstMessage(p), "from")

\* C6: extraction never raises, and returns None for every payload in
\* which the path to messages[0].text.body and messages[0].from is missing,
\* empty or of the wrong type at some level.
C6_ExtractionTotal ==
    /\ exMain # NotRun
       => /\ exMain.kind # "raise"
          /\ ~HasTextMessage(payload) => exMain = None
    /\ exParser # NotRun
       => /\ exParser.kind # "raise"
          /\ ~HasTextMessage(payload) => exParser = None

C6_Witness ==
    /\ payload = JObj([entry |-> JStr(KeyChars("text"))])
    /\ exMain = None
    /\ exParser = None

\* The payload cut down to the first entry, first change and first message.
FirstOf(x) == IF NonEmptyArr(x) THEN JArr(<<x.v[1]>>) ELSE x
FirstValue(v) ==
    IF HasKey(v, "messages")
    THEN JObj([v.v EXCEPT !["messages"] = FirstOf(@)]) ELSE v
FirstChange(c) ==
    IF HasKey(c, "value") THEN JObj([c.v EXCEPT !["value"] = FirstValue(@)]) ELSE c
FirstChanges(cs) ==
    IF NonEmptyArr(cs) THEN JArr(<<FirstChange(cs.v[1])>>) ELSE cs
FirstEntry(e) ==
    IF HasKey(e, "changes")
    THEN JObj([e.v EXCEPT !["changes"] = FirstChanges(@)]) ELSE e
FirstEntries(es) ==
    IF NonEmptyArr(es) THEN JArr(<<FirstEntry(es.v[1])>>) ELSE es
FirstOnly(p) ==
    IF HasKey(p, "entry") THEN JObj([p.v EXCEPT !["entry"] = FirstEntries(@)]) ELSE p

\* C7: when messages[0] of the first change of the first entry has text.body
\* and from, extraction returns exactly that pair; further entries, changes
\* and messages never change the result.
C7_FirstMessageOnly ==
    /\ exMain # NotRun
       => /\ HasTextMessage(payload)
             => exMain = Pair(FirstMessage(payload).v["text"].v["body"],
                              FirstMessage(payload).v["from"])
          /\ exMain = main_extract_message_data(FirstOnly(payload))
    /\ exParser # NotRun
       => /\ HasTextMessage(payload)
             => exParser = Pair(FirstMessage(payload).v["text"].v["body"],
                                FirstMessage(payload).v["from"])
          /\ exParser = parser_extract_message_data(FirstOnly(payload))

C7_Witness ==
    /\ HasTextMessage(payload)
    /\ Len(MessagesOf(payload)) > 1
    /\ Len(payload.v["entry"].v) > 1
    /\ MessagesOf(payload)[2] = TextMsg(JStr(Yo), JStr(Sender2))
    /\ exMain = Pair(JStr(Hi), JStr(Sender1))
    /\ exParser = Pair(JStr(Hi), JStr(Sender1))

-----------------------------------------------------------------------------
(* Properties of the Processing Backend (specification SpecServer).        *)

\* C10: for every text, original is the text unmodified and reply is
\* "I received your message: '" + text + "' and here is a random number: "
\* + n for an integer n in 1000..9999, whatever calls were served before:
\* both ends of the range stay possible for every pending call.
C10_Transform ==
    /\ (srvResp # NoResp /\ ValidMessageIn(srvReq))
       => LET text == srvReq.v["text"].v
              reply == srvResp.body.reply
              a == Len(ReplyPrefix)
              b == a + Len(text)
              c == b + Len(ReplyMiddle)
          IN /\ srvResp.http = 200
             /\ srvResp.body.original = text
             /\ SubSeq(reply, 1, a) = ReplyPrefix
             /\ SubSeq(reply, a + 1, b) = text
             /\ SubSeq(reply, b + 1, c) = ReplyMiddle
             /\ Len(reply) = c + 4
             /\ \A i \in (c + 1)..(c + 4) : reply[i] \in Digits
             /\ DigitsValue(SubSeq(reply, c + 1, c + 4)) \in 1000..9999
    /\ (srvReq # NoReq /\ srvResp = NoResp /\ ValidMessageIn(srvReq))
       => \A n \in {RandLo, RandHi} :
            ENABLED (SrvProcess /\
                     srvResp' = Processed(process_message(srvReq.v["text"].v, n)))

C10_Witness ==
    /\ srvCalls = 2
    /\ srvReq = JObj([text |-> JStr(<<"'">>)])
    /\ srvResp # NoResp
    /\ srvResp.http = 200
    /\ srvResp.body.original = <<"'">>

\* The body has no "text" field, or is not JSON at all.
LacksText(b) == b = InvalidJson \/ ~(b.t = "obj" /\ "text" \in DOMAIN b.v)

\* C11: a /process request whose body lacks "text" or is not well-formed
\* JSON is answered 422 before the transform runs: no random number is
\* drawn and no {original, reply} is produced; a body with text == "" is
\* answered 200.
C11_ValidationFirst ==
    [][ (srvResp = NoResp /\ srvResp' # NoResp)
        => /\ LacksText(srvReq)
              => /\ srvResp'.http = 422
                 /\ "original" \notin DOMAIN srvResp'.body
                 /\ "reply" \notin DOMAIN srvResp'.body
                 /\ srvDraws' = srvDraws
           /\ srvReq = JObj([text |-> JStr(<<>>)])
              => /\ srvResp'.http = 200
                 /\ srvResp'.body.original = <<>> ]_vars

C11_Witness ==
    /\ srvReq = JObj(EmptyObj)
    /\ srvResp # NoResp
    /\ srvResp.http = 422
    /\ srvCalls = 2
    /\ srvDraws = 1

-----------------------------------------------------------------------------
(* Properties of several receive calls (specification Spec).               *)

\* The number of events of one kind over the calls 1..n.
RECURSIVE TotalEvents(_, _)
TotalEvents(n, kind) ==
    IF n = 0 THEN 0 ELSE Len(EventsOf(n, kind)) + TotalEvents(n - 1, kind)

\* What send_message ended in for call r, or every way it could end if it
\* was not invoked.
SendChoices(r) ==
    IF Len(EventsOf(r, "send")) > 0 THEN {reqs[r].send} ELSE SendOutcomes

\* The events of a call of handler i that received p, whose backend call
\* ended in o (or is still pending) and whose send ends in s.
ExpectedLog(i, p, o, s) ==
    LET h == HandlerHead(i, p) IN
    IF h.pc = "done" \/ o = NoOutcome THEN h.events
    ELSE h.events \o HandlerTail(i, h.md, o, s)

\* C12: receive calls are independent and never deduplicated: every call
\* with an extractable message makes its own backend call and, on backend
\* success, its own send, so the sends number the calls whose extraction
\* and backend call both succeeded; what a call does is determined by its
\* own payload and the outcomes of its own backend call and send.
C12_CallsIndependent ==
    /\ TotalEvents(MaxReqs, "backend_call") =
         Cardinality({ r \in Reqs : reqs[r].pc # "idle" /\ Extracted(r).kind = "pair" })
    /\ TotalEvents(MaxReqs, "send") =
         Cardinality({ r \in Reqs : /\ reqs[r].pc = "done"
                                    /\ Extracted(r).kind = "pair"
                                    /\ BackendSucceeded(reqs[r].outcome) })
    /\ \A r \in Reqs :
         reqs[r].pc # "idle"
         => \A s \in SendChoices(r) :
              log[r] = ExpectedLog(impl, reqs[r].payload, reqs[r].outcome, s)

C12_Witness ==
    /\ \A r \in {1, 2} :
         /\ reqs[r].pc = "done"
         /\ reqs[r].payload = TextMessage(JStr(Hi), JStr(Sender1))
         /\ BackendSucceeded(reqs[r].outcome)
         /\ Len(EventsOf(r, "send")) = 1
    /\ TotalEvents(2, "send") = 2

-----------------------------------------------------------------------------
(* The two receive handlers compared (specification Spec).                 *)

OtherImpl == IF impl = "main" THEN "api" ELSE "main"

StatusOf(resp) ==
    IF resp.http = 200 /\ "status" \in DOMAIN resp.body
    THEN resp.body["status"] ELSE "unhandled"

\* What a call shows of itself: its backend and send invocations with their
\* arguments, in order, and the status it answers.
Observed(events) ==
    [i \in 1..Len(events) |->
        IF events[i].ev = "respond"
        THEN [ev |-> "respond", http |-> events[i].resp.http,
              status |-> StatusOf(events[i].resp)]
        ELSE events[i]]

\* C13: app.main.whatsapp_webhook and app.api.webhook.receive_webhook are
\* observationally equivalent: on the payload and the backend and send
\* outcomes of any call, the other handler answers the same status after
\* the same backend and send invocations with the same arguments.
C13_HandlersEquivalent ==
    \A r \in Reqs :
        reqs[r].pc # "idle"
        => \A s \in SendChoices(r) :
             Observed(log[r]) =
               Observed(ExpectedLog(OtherImpl, reqs[r].payload, reqs[r].outcome, s))

C13_Witness ==
    /\ impl = "main"
    /\ reqs[1].pc = "done"
    /\ reqs[1].payload = StringValue
    /\ StatusOf(ResponseOf(1)) = "ignored"
    /\ reqs[2].pc = "done"
    /\ reqs[2].payload = TextMessage(JStr(Hi), JStr(Sender1))
    /\ SendFailed(2)
    /\ StatusOf(ResponseOf(2)) = "error"

====
